---- MODULE Spec2Model ----
(***************************************************************************)
(* Double pendulum simulation (src/doublependulumsimulation.py).           *)
(*                                                                         *)
(* The program computes in IEEE-754 binary floating point (Python floats   *)
(* and numpy float64).  The model keeps that arithmetic: every number is a *)
(* binary floating-point value with a Prec-bit significand, every          *)
(* operation rounds its exact result to the nearest such value (ties to    *)
(* even), division by zero gives Inf or NaN for numpy scalars and raises   *)
(* ZeroDivisionError for Python floats.  float64 has a 53-bit significand; *)
(* the model's format is the same format with fewer bits, so that TLC can  *)
(* enumerate it.  A finite value x is written as the integer x * One       *)
(* (One = 2^FracBits quanta; the quantum is the smallest positive value of *)
(* the format).                                                            *)
(***************************************************************************)
EXTENDS Integers, Sequences, FiniteSets

(***************************************************************************)
(* Bounds of the model.                                                    *)
(***************************************************************************)
Prec == 4              \* significand bits of the floating-point format
MaxCalls == 3          \* calls recorded in the call log
MaxRows == 2           \* samples of a trajectory handed to the projection
ExtraFrames == 3       \* animate calls explored past max_trace_length, and the
                       \* length of the stretches where frames come in any order

FracBits == Prec + 2
One == 2 ^ FracBits
Tiny == 1                       \* the smallest positive value of the format
MaxFinite == 2 ^ 15             \* magnitudes from here on overflow to Inf

PInf == 2 ^ 20
NInf == 0 - PInf
NaN == 2 ^ 21

IsNaN(x) == x = NaN
IsInf(x) == x = PInf \/ x = NInf
IsFinite(x) == ~IsNaN(x) /\ ~IsInf(x)

Abs(n) == IF n < 0 THEN 0 - n ELSE n
Sign(n) == IF n < 0 THEN 0 - 1 ELSE 1

(***************************************************************************)
(* Rounding of the exact value n/d (in quanta, d > 0) to the format.       *)
(***************************************************************************)
Radix == 2 ^ Prec

RECURSIVE Ulp(_, _, _)
Ulp(a, d, u) == IF a \div (d * u) < Radix THEN u ELSE Ulp(a, d, 2 * u)

RoundHalfEven(a, d) ==
    LET q == a \div d
        r == a % d
    IN  IF 2 * r > d \/ (2 * r = d /\ q % 2 = 1) THEN q + 1 ELSE q

Rnd(n, d) ==
    LET a == Abs(n)
        u == Ulp(a, d, 1)
        m == RoundHalfEven(a, d * u) * u
    IN  IF m >= MaxFinite THEN (IF n < 0 THEN NInf ELSE PInf)
        ELSE Sign(n) * m

FNeg(x) == IF IsNaN(x) THEN NaN ELSE 0 - x

FAdd(x, y) ==
    IF IsNaN(x) \/ IsNaN(y) THEN NaN
    ELSE IF IsInf(x) /\ IsInf(y) THEN (IF x = y THEN x ELSE NaN)
    ELSE IF IsInf(x) THEN x
    ELSE IF IsInf(y) THEN y
    ELSE Rnd(x + y, 1)

FSub(x, y) == FAdd(x, FNeg(y))

FMul(x, y) ==
    IF IsNaN(x) \/ IsNaN(y) THEN NaN
    ELSE IF IsInf(x) \/ IsInf(y)
         THEN (IF x = 0 \/ y = 0 THEN NaN
               ELSE IF Sign(x) = Sign(y) THEN PInf ELSE NInf)
    ELSE Rnd(x * y, One)

\* numpy scalar division: x / 0 is Inf or NaN (with a RuntimeWarning).
FDiv(x, y) ==
    IF IsNaN(x) \/ IsNaN(y) THEN NaN
    ELSE IF IsInf(x) THEN (IF IsInf(y) THEN NaN
                           ELSE IF Sign(x) = Sign(y) THEN PInf ELSE NInf)
    ELSE IF IsInf(y) THEN 0
    ELSE IF y = 0 THEN (IF x = 0 THEN NaN ELSE IF x > 0 THEN PInf ELSE NInf)
    ELSE Rnd(Sign(y) * x * One, Abs(y))

\* The integer k as a float (exact while k < 2^Prec).
FromInt(k) == Rnd(k * One, 1)

\* The decimal literal n/d as a float.
Lit(n, d) == Rnd(n * One, d)

(***************************************************************************)
(* np.sin and np.cos.  The argument is reduced modulo 2*pi and the value   *)
(* is computed by its Taylor series in fixed point (TrigOne = 2^14), then  *)
(* rounded to the format.  sin(0) = 0 and cos(0) = 1 exactly, |sin| and    *)
(* |cos| never exceed 1, sin or cos of an infinity is NaN.                 *)
(***************************************************************************)
TrigOne == 2 ^ 14
HalfPiFix == 25736             \* pi/2 * 2^14, rounded
PiFix == 2 * HalfPiFix
TwoPiFix == 2 * PiFix

FixMul(a, b) == (a * b) \div TrigOne

\* sin y for 0 <= y <= pi/2 (fixed point), by Horner's rule up to y^9.
SinSeries(y) ==
    LET y2 == FixMul(y, y)
        t4 == TrigOne - y2 \div 72
        t3 == TrigOne - FixMul(y2, t4) \div 42
        t2 == TrigOne - FixMul(y2, t3) \div 20
        t1 == TrigOne - FixMul(y2, t2) \div 6
    IN  FixMul(y, t1)

\* cos y for 0 <= y <= pi/2 (fixed point), up to y^10.
CosSeries(y) ==
    LET y2 == FixMul(y, y)
        t5 == TrigOne - y2 \div 90
        t4 == TrigOne - FixMul(y2, t5) \div 56
        t3 == TrigOne - FixMul(y2, t4) \div 30
        t2 == TrigOne - FixMul(y2, t3) \div 12
    IN  TrigOne - FixMul(y2, t2) \div 2

Reduce(x) == (x * (TrigOne \div One)) % TwoPiFix

SinFix(r) ==
    IF r <= HalfPiFix THEN SinSeries(r)
    ELSE IF r <= PiFix THEN SinSeries(PiFix - r)
    ELSE IF r <= PiFix + HalfPiFix THEN 0 - SinSeries(r - PiFix)
    ELSE 0 - SinSeries(TwoPiFix - r)

CosFix(r) ==
    IF r <= HalfPiFix THEN CosSeries(r)
    ELSE IF r <= PiFix THEN 0 - CosSeries(PiFix - r)
    ELSE IF r <= PiFix + HalfPiFix THEN 0 - CosSeries(r - PiFix)
    ELSE CosSeries(TwoPiFix - r)

Sin(x) == IF ~IsFinite(x) THEN NaN ELSE Rnd(SinFix(Reduce(x)) * One, TrigOne)

Cos(x) == IF ~IsFinite(x) THEN NaN ELSE Rnd(CosFix(Reduce(x)) * One, TrigOne)

\* np.pi / 2, as the format holds it.
HalfPi == Rnd(HalfPiFix * One, TrigOne)

(***************************************************************************)
(* State.                                                                  *)
(***************************************************************************)
VARIABLES
    pendulum,     \* the DoublePendulum object: NoModel, or its five fields
    log,          \* the calls made on the object so far, oldest first: each
                  \* with its arguments, what it gave back, and the object's
                  \* fields before and after it
    frames,       \* create_animation's x1, y1, x2, y2 arrays (t, solution beside)
    trace_x,      \* create_animation's closure list trace_x
    trace_y,      \* create_animation's closure list trace_y
    artists,      \* what line, trace and time_text currently show
    calls         \* the frame index of every animate call so far, oldest first

vars == <<pendulum, log, frames, trace_x, trace_y, artists, calls>>
animVars == <<frames, trace_x, trace_y, artists, calls>>

NoModel == [L1 |-> NaN, L2 |-> NaN, m1 |-> NaN, m2 |-> NaN, g |-> NaN, built |-> FALSE]
NoFrames == [t |-> <<>>, solution |-> <<>>, x1 |-> <<>>, y1 |-> <<>>, x2 |-> <<>>, y2 |-> <<>>]
NoArtists == [line |-> <<>>, trace |-> <<>>, time_text |-> <<>>]

Return(v) == [kind |-> "return", value |-> v]
Raise(e) == [kind |-> "raise", value |-> e]

(***************************************************************************)
(* class DoublePendulum                                                    *)
(***************************************************************************)
\* __init__: stores its five arguments; it checks none of them.
DoublePendulum(L1, L2, m1, m2, g) ==
    [L1 |-> L1, L2 |-> L2, m1 |-> m1, m2 |-> m2, g |-> g, built |-> TRUE]

Default_L1 == One
Default_L2 == One
Default_m1 == One
Default_m2 == One
Default_g == Lit(981, 100)

\* Left-to-right product, as Python evaluates a * b * c * ...
RECURSIVE FProdFrom(_, _, _)
FProdFrom(acc, xs, i) ==
    IF i > Len(xs) THEN acc ELSE FProdFrom(FMul(acc, xs[i]), xs, i + 1)

FProd(xs) == FProdFrom(xs[1], xs, 2)

delta(state) == FSub(state[3], state[1])

den1Dropped(self, state) ==
    LET c == Cos(delta(state))
    IN  FSub(FMul(self.m1, self.L1), FMul(FMul(FMul(self.m2, self.L1), c), c))

den1(self, state) ==
    LET c == Cos(delta(state))
    IN  FSub(FMul(FAdd(self.m1, self.m2), self.L1),
             FMul(FMul(FMul(self.m2, self.L1), c), c))

\* self.L2 / self.L1 divides two Python floats: it raises on L1 = 0.
den2(self, state) == FMul(FDiv(self.L2, self.L1), den1(self, state))

domega1_dt(self, state) ==
    LET theta1 == state[1]
        omega1 == state[2]
        theta2 == state[3]
        omega2 == state[4]
        sd == Sin(delta(state))
        cd == Cos(delta(state))
        a == FProd(<<self.m2, self.L1, omega1, omega1, sd, cd>>)
        b == FProd(<<self.m2, self.g, Sin(theta2), cd>>)
        c == FProd(<<self.m2, self.L2, omega2, omega2, sd>>)
        e == FProd(<<FAdd(self.m1, self.m2), self.g, Sin(theta1)>>)
    IN  FDiv(FSub(FAdd(FAdd(a, b), c), e), den1(self, state))

domega2_dt(self, state) ==
    LET theta1 == state[1]
        omega1 == state[2]
        theta2 == state[3]
        omega2 == state[4]
        sd == Sin(delta(state))
        cd == Cos(delta(state))
        a == FProd(<<FNeg(self.m2), self.L2, omega2, omega2, sd, cd>>)
        b == FProd(<<FAdd(self.m1, self.m2), self.g, Sin(theta1), cd>>)
        c == FProd(<<FAdd(self.m1, self.m2), self.L1, omega1, omega1, sd>>)
        e == FProd(<<FAdd(self.m1, self.m2), self.g, Sin(theta2)>>)
    IN  FDiv(FSub(FSub(FAdd(a, b), c), e), den2(self, state))

derivativesTimed(self, state, t) ==
    IF self.L1 = 0 THEN Raise("ZeroDivisionError")
    ELSE Return(<<FAdd(state[2], t), domega1_dt(self, state),
                  state[4], domega2_dt(self, state)>>)

\* derivatives(self, state, t): t is accepted and never read.
derivatives(self, state, t) ==
    IF self.L1 = 0 THEN Raise("ZeroDivisionError")
    ELSE Return(<<state[2], domega1_dt(self, state),
                  state[4], domega2_dt(self, state)>>)

(***************************************************************************)
(* solve                                                                   *)
(***************************************************************************)
\* math.ceil of a non-negative finite float, as an integer.
Ceil(x) == (x + One - 1) \div One

\* np.arange(0, stop, step) for floats: ceil((stop - 0) / step) values, the
\* i-th being 0 + i * step, each computed in floating point.
arangeLen(stop, step) ==
    LET q == FDiv(FSub(stop, 0), step)
    IN  IF IsFinite(q) /\ q > 0 THEN Ceil(q) ELSE 0

arange(stop, step) ==
    [i \in 1..arangeLen(stop, step) |-> FAdd(0, FMul(FromInt(i - 1), step))]

\* A sample index converts to a float exactly, and consecutive sample times
\* differ by more than one rounding step, only while the index stays below
\* 2^(Prec-1): with float64 that is every array that fits in memory.
MaxSamples == 2 ^ (Prec - 1) + 1

\* One step of the integrator from y over h.  scipy's odeint (LSODA) is a
\* library outside the repository; what the model keeps of it is that each
\* row is the row before plus h times a combination of values of func, here
\* the value at the row before.
Advance(y, f, h) == [i \in 1..4 |-> FAdd(y[i], FMul(h, f[i]))]

RECURSIVE odeintRows(_, _, _, _)
odeintRows(self, rows, t, k) ==
    IF k > Len(t) THEN Return(rows)
    ELSE LET y == rows[Len(rows)]
             f == derivatives(self, y, t[k - 1])
         IN  IF f.kind = "raise" THEN f
             ELSE odeintRows(self,
                             Append(rows, Advance(y, f.value, FSub(t[k], t[k - 1]))),
                             t, k + 1)

\* odeint(func, y0, t): one row per entry of t, the first row being y0.
odeint(self, y0, t) == odeintRows(self, <<y0>>, t, 2)

solve(self, initial_state, t_span, dt) ==
    LET t == arange(t_span, dt)
        solution == odeint(self, initial_state, t)
    IN  IF solution.kind = "raise" THEN solution
        ELSE Return([t |-> t, solution |-> solution.value])

\* A call that would write a field of the object.
AfterCallRescaled(self) == [self EXCEPT !.g = FAdd(self.g, One)]

\* What a call leaves in the object: derivatives and solve assign no field.
AfterCall(self) == self

(***************************************************************************)
(* Operations on the object.                                               *)
(***************************************************************************)
Call(op, args, result, before, after) ==
    [op |-> op, args |-> args, kind |-> result.kind, value |-> result.value,
     before |-> before, after |-> after]

Construct(L1, L2, m1, m2, g) ==
    /\ ~pendulum.built
    /\ pendulum' = DoublePendulum(L1, L2, m1, m2, g)
    /\ UNCHANGED <<log, animVars>>

Derivatives(state, t, cap) ==
    /\ pendulum.built
    /\ Len(log) < cap
    /\ pendulum' = AfterCall(pendulum)
    /\ log' = Append(log, Call("derivatives", <<state, t>>,
                               derivatives(pendulum, state, t),
                               pendulum, pendulum'))
    /\ UNCHANGED animVars

Solve(initial_state, t_span, dt, cap) ==
    /\ pendulum.built
    /\ Len(log) < cap
    /\ arangeLen(t_span, dt) \in 1..MaxSamples
    /\ pendulum' = AfterCall(pendulum)
    /\ log' = Append(log, Call("solve", <<initial_state, t_span, dt>>,
                               solve(pendulum, initial_state, t_span, dt),
                               pendulum, pendulum'))
    /\ UNCHANGED animVars

(***************************************************************************)
(* Inputs.                                                                 *)
(***************************************************************************)
LengthValues == {0, One, 2 * One}
MassValues == {0 - One, Tiny, One, 3 * One}
GravityValues == {0, Default_g}
ThetaValues == {0, Tiny, One \div 2, HalfPi, 3 * One}
OmegaValues == {0, One}
States == {<<th1, om1, th2, om2>> : th1 \in {0, HalfPi}, om1 \in OmegaValues,
                                    th2 \in ThetaValues, om2 \in OmegaValues}
Equilibrium == <<0, 0, 0, 0>>
\* create_animation's initial_state = [np.pi/2, 0, np.pi/2 + 0.1, 0]
initial_state == <<HalfPi, 0, FAdd(HalfPi, Lit(1, 10)), 0>>
InitialStates == {Equilibrium, initial_state}

Init ==
    /\ pendulum = NoModel
    /\ log = <<>>
    /\ frames = NoFrames
    /\ trace_x = <<>>
    /\ trace_y = <<>>
    /\ artists = NoArtists
    /\ calls = <<>>

\* One object, built with any arguments, and one call on it.
Next ==
    \/ \E L1 \in LengthValues, L2 \in LengthValues, m1 \in MassValues,
          m2 \in MassValues, g \in GravityValues : Construct(L1, L2, m1, m2, g)
    \/ \E state \in States : Derivatives(state, 0, 1)
    \/ \E y0 \in InitialStates, t_span \in {One, 2 * One}, dt \in {One \div 2, One} :
          Solve(y0, t_span, dt, 1)

Spec == Init /\ [][Next]_vars

(***************************************************************************)
(* Properties.                                                             *)
(***************************************************************************)
Valid(self) ==
    /\ self.built
    /\ \A x \in {self.L1, self.L2, self.m1, self.m2, self.g} : IsFinite(x) /\ x > 0

DefaultPendulum == DoublePendulum(Default_L1, Default_L2, Default_m1, Default_m2, Default_g)

AllFinite(v) == \A i \in 1..Len(v) : IsFinite(v[i])

\* The instability condition in its weakest reading: a denominator that is
\* below every positive epsilon.
Unstable(self, state) == den1(self, state) = 0 \/ den2(self, state) = 0

Logged(op) == {i \in 1..Len(log) : log[i].op = op}

\* C1: no object exists whose L1, L2, m1, m2 or g is <= 0, and no call ever
\* runs on one: construction with such a value fails with InvalidParameter.
C1_InvalidParameterRejected ==
    /\ pendulum.built => Valid(pendulum)
    /\ \A i \in 1..Len(log) : Valid(log[i].before)

\* C2: a derivative evaluation with a denominator near zero is reported as
\* an error: derivatives returns no NaN or Infinity component, and a solve
\* that meets the condition raises instead of returning a trajectory.
\* Stated for validly constructed objects only, where the missing parameter
\* check of C1 plays no part.
C2_InstabilitySurfaced ==
    \A i \in 1..Len(log) :
        LET c == log[i] IN
        Valid(c.before) =>
            /\ (c.op = "derivatives" /\ c.kind = "return") => AllFinite(c.value)
            /\ (c.op = "derivatives" /\ Unstable(c.before, c.args[1]))
                   => c.kind = "raise"
            /\ (c.op = "solve" /\ c.kind = "return") =>
                   \A k \in 1..(Len(c.value.solution) - 1) :
                       /\ AllFinite(c.value.solution[k])
                       /\ ~Unstable(c.before, c.value.solution[k])

\* C3: with every parameter strictly positive, derivatives at (0,0,0,0) is
\* exactly (0,0,0,0), and solve from (0,0,0,0) returns (0,0,0,0) at every
\* sample.
C3_FixedPoint ==
    \A i \in 1..Len(log) :
        LET c == log[i] IN
        (Valid(c.before) /\ c.args[1] = Equilibrium) =>
            /\ c.op = "derivatives" => (c.kind = "return" /\ c.value = Equilibrium)
            /\ c.op = "solve" =>
                   /\ c.kind = "return"
                   /\ \A k \in 1..Len(c.value.solution) :
                          c.value.solution[k] = Equilibrium

CallStates == {Equilibrium, initial_state, <<HalfPi, One, 0, 0>>}
CallGrids == {<<One, One \div 2>>, <<2 * One, One>>}

NextCalls ==
    \/ \E L2 \in {One, 2 * One} :
          Construct(Default_L1, L2, Default_m1, Default_m2, Default_g)
    \/ \E state \in CallStates, t \in {0, One} : Derivatives(state, t, MaxCalls)
    \/ \E y0 \in InitialStates, grid \in CallGrids :
          Solve(y0, grid[1], grid[2], MaxCalls)

SpecCalls == Init /\ [][NextCalls]_vars

C6_DerivativesTimeInvariant ==
    /\ \A i \in Logged("derivatives"), j \in Logged("derivatives") :
           log[i].args[1] = log[j].args[1] =>
               /\ log[i].kind = log[j].kind
               /\ log[i].value = log[j].value
    /\ \A i \in Logged("derivatives") : log[i].after = log[i].before

\* C6's case: derivatives called on one state away from rest at two
\* different times.
C6_Witness ==
    \E i \in Logged("derivatives"), j \in Logged("derivatives") :
        /\ log[i].args[1] = log[j].args[1]
        /\ log[i].args[2] # log[j].args[2]
        /\ log[i].args[1] = <<HalfPi, One, 0, 0>>
        /\ log[i].kind = "return"

(***************************************************************************)
(* The time grid of solve.                                                 *)
(***************************************************************************)
TimeValues == {Rnd(k, 1) : k \in (One \div 4)..(4 * One)}

NextGrid ==
    \/ Construct(Default_L1, Default_L2, Default_m1, Default_m2, Default_g)
    \/ \E t_span \in TimeValues, dt \in TimeValues : Solve(initial_state, t_span, dt, 1)

SpecGrid == Init /\ [][NextGrid]_vars

\* The least integer n with n * dt >= t_span, in exact arithmetic.
LeastCount(t_span, dt) == (t_span + dt - 1) \div dt

\* C4: for dt > 0 and timeSpan > 0 solve returns the times k*dt for
\* k = 0..n-1 with n the least integer such that n*dt >= timeSpan: the first
\* is 0, they increase strictly, each is strictly below timeSpan, and there
\* is one state per time, the first being the initial state.
C4_UniformGrid ==
    \A i \in Logged("solve") :
        LET c == log[i]
            t_span == c.args[2]
            dt == c.args[3]
        IN  (dt > 0 /\ t_span > 0) =>
                /\ c.kind = "return"
                /\ Len(c.value.t) = LeastCount(t_span, dt)
                /\ c.value.t[1] = 0
                /\ \A k \in 1..Len(c.value.t) :
                       /\ c.value.t[k] = FMul(FromInt(k - 1), dt)
                       /\ c.value.t[k] < t_span
                       /\ k > 1 => c.value.t[k - 1] < c.value.t[k]
                /\ Len(c.value.solution) = Len(c.value.t)
                /\ c.value.solution[1] = c.args[1]

(***************************************************************************)
(* create_animation: bob positions, and the animation's callbacks.         *)
(***************************************************************************)
Column(solution, j) == [i \in 1..Len(solution) |-> solution[i][j]]

positionsFrom(self, theta1, theta2) ==
    LET n == Len(theta1)
        x1 == [i \in 1..n |-> FMul(self.L1, Sin(theta1[i]))]
        y1 == [i \in 1..n |-> FMul(FNeg(self.L1), Cos(theta1[i]))]
        x2 == [i \in 1..n |-> FAdd(x1[i], FMul(self.L2, Sin(theta2[i])))]
        y2 == [i \in 1..n |-> FSub(y1[i], FMul(self.L2, Cos(theta2[i])))]
    IN  [x1 |-> x1, y1 |-> y1, x2 |-> x2, y2 |-> y2]

positionsOfVelocity(self, solution) ==
    positionsFrom(self, Column(solution, 2), Column(solution, 3))

\* theta1 = solution[:, 0], theta2 = solution[:, 2], then x1, y1, x2, y2.
positions(self, solution) ==
    positionsFrom(self, Column(solution, 1), Column(solution, 3))

Framed(self, t, solution) ==
    LET p == positions(self, solution)
    IN  [t |-> t, solution |-> solution,
         x1 |-> p.x1, y1 |-> p.y1, x2 |-> p.x2, y2 |-> p.y2]

max_trace_length == 200

popNewest(xs) == SubSeq(xs, 1, Len(xs) - 1)

\* list.pop(0)
pop0(xs) == Tail(xs)

\* f'{x:.2f}': the float in hundredths, rounded to nearest.
Hundredths(x) == Sign(x) * RoundHalfEven(Abs(x) * 100, One)

\* The positions of a trajectory, for an object with any lengths.
Project(solution) ==
    /\ pendulum.built
    /\ frames = NoFrames
    /\ frames' = Framed(pendulum, <<>>, solution)
    /\ UNCHANGED <<pendulum, log, trace_x, trace_y, artists, calls>>

\* create_animation up to FuncAnimation(...): the default object, its
\* trajectory from initial_state, the positions, the empty trace.  The program
\* fixes t_span = 20 and dt = 0.02, which makes 1000 frames; the model takes
\* grids of a few frames.
create_animation(t_span, dt) ==
    /\ ~pendulum.built
    /\ arangeLen(t_span, dt) \in 1..MaxSamples
    /\ pendulum' = DefaultPendulum
    /\ \E r \in {solve(DefaultPendulum, initial_state, t_span, dt)} :
          /\ r.kind = "return"
          /\ frames' = Framed(DefaultPendulum, r.value.t, r.value.solution)
    /\ trace_x' = <<>>
    /\ trace_y' = <<>>
    /\ artists' = NoArtists
    /\ UNCHANGED <<log, calls>>

\* init(): empties the three artists; trace_x and trace_y are not touched.
init ==
    /\ frames.t # <<>>
    /\ artists' = NoArtists
    /\ UNCHANGED <<pendulum, log, frames, trace_x, trace_y, calls>>

\* The frame FuncAnimation asks for next: frames = len(t), repeat = True.
NextFrame == IF calls = <<>> THEN 0 ELSE (calls[Len(calls)] + 1) % Len(frames.t)

\* animate(i), i counted from 0.  FuncAnimation asks for the frames in order
\* and starts over after the last.  Any frame may be asked for during the
\* first ExtraFrames calls and once max_trace_length calls were made.
animate(i) ==
    /\ frames.t # <<>>
    /\ i \in 0..(Len(frames.t) - 1)
    /\ Len(calls) < max_trace_length + ExtraFrames
    /\ Len(calls) \in ExtraFrames..(max_trace_length - 1) => i = NextFrame
    /\ calls' = Append(calls, i)
    /\ LET xs == Append(trace_x, frames.x2[i + 1])
           ys == Append(trace_y, frames.y2[i + 1])
       IN  /\ trace_x' = IF Len(xs) > max_trace_length THEN pop0(xs) ELSE xs
           /\ trace_y' = IF Len(xs) > max_trace_length THEN pop0(ys) ELSE ys
    /\ artists' = [line |-> << <<0, frames.x1[i + 1], frames.x2[i + 1]>>,
                              <<0, frames.y1[i + 1], frames.y2[i + 1]>> >>,
                   trace |-> <<trace_x', trace_y'>>,
                   time_text |-> <<Hundredths(frames.t[i + 1])>>]
    /\ UNCHANGED <<pendulum, log, frames>>

(***************************************************************************)
(* The projection to bob positions.                                        *)
(***************************************************************************)
Samples == {<<th1, om1, th2, 0>> : th1 \in {0, HalfPi}, om1 \in {0, One},
                                   th2 \in {0, One \div 2, HalfPi}}
Trajectories == UNION {[1..n -> Samples] : n \in 1..MaxRows}

NextCartesian ==
    \/ \E L1 \in {One \div 2, One, 2 * One}, L2 \in {One \div 2, One, 2 * One} :
          Construct(L1, L2, Default_m1, Default_m2, Default_g)
    \/ \E solution \in Trajectories : Project(solution)

SpecCartesian == Init /\ [][NextCartesian]_vars

\* C7: each sample's positions are x1 = L1 sin(theta1), y1 = -L1 cos(theta1),
\* x2 = x1 + L2 sin(theta2), y2 = y1 - L2 cos(theta2): they depend on that
\* sample's theta1 and theta2 alone, and theta1 = theta2 = 0 gives
\* (0, -L1, 0, -(L1 + L2)), which is (0, -1, 0, -2) for L1 = L2 = 1.
C7_Cartesian ==
    LET n == Len(frames.solution)
        At(i) == <<frames.x1[i], frames.y1[i], frames.x2[i], frames.y2[i]>>
    IN  /\ Len(frames.x1) = n /\ Len(frames.y1) = n
        /\ Len(frames.x2) = n /\ Len(frames.y2) = n
        /\ \A i \in 1..n :
               LET theta1 == frames.solution[i][1]
                   theta2 == frames.solution[i][3]
               IN  /\ frames.x1[i] = FMul(pendulum.L1, Sin(theta1))
                   /\ frames.y1[i] = FNeg(FMul(pendulum.L1, Cos(theta1)))
                   /\ frames.x2[i] = FAdd(frames.x1[i], FMul(pendulum.L2, Sin(theta2)))
                   /\ frames.y2[i] = FSub(frames.y1[i], FMul(pendulum.L2, Cos(theta2)))
                   /\ (theta1 = 0 /\ theta2 = 0) =>
                          At(i) = <<0, FNeg(pendulum.L1), 0,
                                    FNeg(FAdd(pendulum.L1, pendulum.L2))>>
                   /\ (theta1 = 0 /\ theta2 = 0 /\ pendulum.L1 = One /\ pendulum.L2 = One)
                          => At(i) = <<0, 0 - One, 0, 0 - 2 * One>>
        /\ \A i \in 1..n, j \in 1..n :
               (/\ frames.solution[i][1] = frames.solution[j][1]
                /\ frames.solution[i][3] = frames.solution[j][3]) => At(i) = At(j)

\* C7's case: with L1 = L2 = 1, two samples hanging straight down that differ
\* in omega1, next to a sample at other angles, have been projected.
C7_Witness ==
    /\ pendulum.L1 = One /\ pendulum.L2 = One
    /\ Len(frames.solution) = 2
    /\ frames.solution[1] = <<0, 0, 0, 0>>
    /\ frames.solution[2] = <<0, One, 0, 0>>
    /\ frames.y2 = <<0 - 2 * One, 0 - 2 * One>>

(***************************************************************************)
(* The animation.                                                          *)
(***************************************************************************)
AnimGrids == {<<One, One \div 2>>, <<3 * (One \div 2), One \div 2>>}

NextAnim ==
    \/ \E grid \in AnimGrids : create_animation(grid[1], grid[2])
    \/ init
    \/ \E i \in 0..(MaxSamples - 1) : animate(i)

SpecAnim == Init /\ [][NextAnim]_vars

Min(a, b) == IF a < b THEN a ELSE b

\* C10: after any animate and init calls trace_x and trace_y have the same
\* length, min(number of animate calls, 200), and hold x2[i], y2[i] of the
\* most recent calls in call order.
C10_TraceWindow ==
    LET n == Len(trace_x)
        first == Len(calls) - n
    IN  /\ Len(trace_y) = n
        /\ n = Min(Len(calls), 200)
        /\ n <= max_trace_length
        /\ \A k \in 1..n :
               /\ trace_x[k] = frames.x2[calls[first + k] + 1]
               /\ trace_y[k] = frames.y2[calls[first + k] + 1]

\* C10's case: more than 200 animate calls, the frames having wrapped and
\* then come out of order, an init() after the trace was full; the two
\* oldest calls are gone.
C10_Witness ==
    /\ Len(calls) = max_trace_length + 2
    /\ Len(frames.t) = 3
    /\ calls[max_trace_length + 1] = 2 /\ calls[max_trace_length + 2] = 2
    /\ artists = NoArtists
    /\ Len(trace_x) = max_trace_length
    /\ trace_x[1] = frames.x2[calls[3] + 1]
    /\ frames.x2[calls[3] + 1] # frames.x2[calls[1] + 1]

====
